---- MODULE Spec2Model ----
(***************************************************************************)
(* Sales microservice: bearer-token authentication (remote delegation with *)
(* local JWT fallback) in front of the client routes (create, create with  *)
(* documents, paginated listing, recent listing) over one clients table.   *)
(*                                                                         *)
(* Text values are sequences of one-character strings, so that prefix      *)
(* tests, parseInt, substring and LIKE are computed and not assumed.       *)
(* JavaScript objects are functions from keys to values: a key that is not *)
(* in the DOMAIN is an absent (undefined) property.                        *)
(***************************************************************************)
EXTENDS Integers, Sequences, FiniteSets, TLC

(***************************************************************************)
(* Bounds of the model                                                     *)
(***************************************************************************)
MaxReq == 2        \* request slots handled concurrently
MaxStore == 2      \* rows the clients table may hold
MaxTime == 2       \* readings of the server clock: 0..MaxTime

Reqs == 1..MaxReq

(***************************************************************************)
(* JavaScript values                                                       *)
(***************************************************************************)
\* JSON null, as a text value no real text equals
NULL == <<"null">>

\* Number.NaN, as returned by parseInt: an integer no computation of the
\* model yields
NaN == 0 - 999999

Digits == {"0", "1", "2", "3", "4", "5", "6", "7", "8", "9"}
HexLower == Digits \cup {"a", "b", "c", "d", "e", "f"}

DigitVal(c) ==
  CASE c = "0" -> 0 [] c = "1" -> 1 [] c = "2" -> 2 [] c = "3" -> 3
    [] c = "4" -> 4 [] c = "5" -> 5 [] c = "6" -> 6 [] c = "7" -> 7
    [] c = "8" -> 8 [] c = "9" -> 9

DigitChar(d) ==
  CASE d = 0 -> "0" [] d = 1 -> "1" [] d = 2 -> "2" [] d = 3 -> "3"
    [] d = 4 -> "4" [] d = 5 -> "5" [] d = 6 -> "6" [] d = 7 -> "7"
    [] d = 8 -> "8" [] d = 9 -> "9"

\* String.prototype.startsWith
StartsWith(s, p) == Len(s) >= Len(p) /\ SubSeq(s, 1, Len(p)) = p

\* String.prototype.substring(from, to), zero-based, to exclusive
Substring(s, from, to) ==
  SubSeq(s, from + 1, IF to > Len(s) THEN Len(s) ELSE to)

\* String.prototype.split(sep) for a one-character separator
RECURSIVE SplitAcc(_, _, _, _)
SplitAcc(s, sep, cur, acc) ==
  IF s = <<>> THEN Append(acc, cur)
  ELSE IF Head(s) = sep THEN SplitAcc(Tail(s), sep, <<>>, Append(acc, cur))
  ELSE SplitAcc(Tail(s), sep, Append(cur, Head(s)), acc)

Split(s, sep) == SplitAcc(s, sep, <<>>, <<>>)

\* parseInt(s): the value of the longest prefix of decimal digits, NaN when
\* the text does not start with a digit (radix 10, no sign or blank in the
\* texts of the model)
RECURSIVE ParseDigits(_, _)
ParseDigits(s, acc) ==
  IF s = <<>> \/ Head(s) \notin Digits THEN acc
  ELSE ParseDigits(Tail(s), 10 * acc + DigitVal(Head(s)))

parseInt(s) ==
  IF s = <<>> \/ Head(s) \notin Digits THEN NaN ELSE ParseDigits(s, 0)

isNaN(n) == n = NaN

\* Number.prototype.toString() of a non-negative integer
RECURSIVE NumToString(_)
NumToString(n) ==
  IF n < 10 THEN <<DigitChar(n)>>
  ELSE Append(NumToString(n \div 10), DigitChar(n % 10))

\* object spread { ...a, ...b }: the keys of both, b's value winning
Spread(a, b) ==
  [k \in DOMAIN a \cup DOMAIN b |-> IF k \in DOMAIN b THEN b[k] ELSE a[k]]

\* the empty object {}
EmptyObj == [k \in {} |-> NULL]

\* !obj.k for a text property: undefined, null and "" are falsy
Falsy(obj, k) == k \notin DOMAIN obj \/ obj[k] = NULL \/ obj[k] = <<>>

(***************************************************************************)
(* Inputs: tokens, Authorization headers, answers of the remote service    *)
(***************************************************************************)
Roles == {"sales", "admin", "viewer"}

\* The bearer tokens of the model, one character each, and the JWT each one
\* is: the key it is signed with and its payload (DecodedToken).
JwtOf(t) ==
  CASE t = <<"s">> -> [key |-> <<"k">>,
                       payload |-> [userId |-> 1, email |-> "s@x", role |-> "sales", exp |-> 9]]
    [] t = <<"a">> -> [key |-> <<"k">>,
                       payload |-> [userId |-> 2, email |-> "a@x", role |-> "admin", exp |-> 9]]
    [] t = <<"v">> -> [key |-> <<"k">>,
                       payload |-> [userId |-> 1, email |-> "v@x", role |-> "viewer", exp |-> 9]]
    [] t = <<"e">> -> [key |-> <<"k">>,
                       payload |-> [userId |-> 1, email |-> "s@x", role |-> "sales", exp |-> 1]]
    [] t = <<"f">> -> [key |-> <<"z">>,
                       payload |-> [userId |-> 2, email |-> "f@x", role |-> "sales", exp |-> 9]]
    [] t = <<"n">> -> [key |-> <<"k">>,
                       payload |-> [email |-> "n@x", role |-> "sales", exp |-> 9]]

Tokens == {<<"s">>, <<"a">>, <<"v">>, <<"e">>, <<"f">>, <<"n">>}

\* req.headers.authorization when the header is absent
UNDEFINED == <<"undefined">>

Bearer == <<"B", "e", "a", "r", "e", "r", " ">>

Headers ==
  {UNDEFINED, <<>>, Bearer, <<"B", "a", "s", "i", "c", " ", "s">>,
   <<"b", "e", "a", "r", "e", "r", " ", "s">>,
   <<"B", "e", "a", "r", "e", "r", "s">>}
  \cup {Bearer \o t : t \in Tokens}

\* user.id as the remote service may send it: a JSON number or a JSON string
RemoteIds ==
  {[num |-> 1], [num |-> 2], [str |-> <<"1", "x">>], [str |-> <<"x">>], [str |-> <<>>]}

RemoteUsers ==
  {[id |-> i, email |-> "r@x", role |-> ro] : i \in RemoteIds, ro \in Roles}
  \cup {[email |-> "r@x", role |-> ro] : ro \in Roles}
  \cup {[id |-> [num |-> 1], email |-> "r@x"]}

\* response.data when the 2xx response carries the JSON value null
NullData == [isNull |-> TRUE]

\* What awaiting axios.post may yield: a 2xx response with its data, or an
\* AxiosError with a code, a message and, when the service answered, a response.
NoResponse == [k \in {} |-> 0]

RemoteOutcomes ==
  {[kind |-> "response", data |-> d] :
      d \in {NullData, EmptyObj} \cup {[user |-> u] : u \in RemoteUsers}}
  \cup {[kind |-> "error", axios |-> TRUE, code |-> "ECONNABORTED",
         message |-> "timeout of 5000ms exceeded", response |-> NoResponse],
        [kind |-> "error", axios |-> TRUE, code |-> "ERR_NETWORK",
         message |-> "Network Error", response |-> NoResponse],
        [kind |-> "error", axios |-> TRUE, code |-> "ECONNREFUSED",
         message |-> "connect ECONNREFUSED", response |-> NoResponse],
        [kind |-> "error", axios |-> TRUE, code |-> "ENOTFOUND",
         message |-> "getaddrinfo ENOTFOUND", response |-> NoResponse],
        [kind |-> "error", axios |-> FALSE, code |-> "",
         message |-> "Invalid URL", response |-> NoResponse]}
  \cup {[kind |-> "error", axios |-> TRUE, code |-> "ERR_BAD_REQUEST",
         message |-> "Request failed", response |-> [status |-> st, data |-> <<"remote body">>]] :
           st \in {401, 403}}

\* process.env: whether MAIN_API_URL and AUTH_ENDPOINT are both set, and
\* JWT_SECRET ("" when unset)
Envs == [remote : BOOLEAN, JWT_SECRET : {<<>>, <<"k">>}]

(***************************************************************************)
(* State                                                                   *)
(***************************************************************************)
VARIABLES
  env,     \* process.env, fixed when the process starts
  store,   \* the clients table: the rows in the order they were inserted
  blobs,   \* the blob container: the names of the blobs uploaded
  now,     \* the server clock
  req      \* the request slots: each request's inputs, position and response

vars == <<env, store, blobs, now, req>>

\* The remote service has not answered (or was not asked)
NoAnswer == [kind |-> "none"]

\* A slot no request occupies. input is the body, form or query of the
\* request, answer what the remote service answered, user is req.user ({}
\* while unset), status 0 means no response sent, local holds the handler's
\* local variables, and log counts what the request has done so far: remote
\* calls issued, local validations entered, next() calls, responses sent,
\* storage queries issued, storage queries failed, rows inserted.
Idle ==
  [pc |-> "idle", route |-> "none", authHeader |-> UNDEFINED, token |-> <<>>,
   input |-> EmptyObj, answer |-> NoAnswer,
   user |-> EmptyObj, status |-> 0, message |-> "", data |-> <<>>,
   local |-> EmptyObj,
   log |-> [remote |-> 0, local |-> 0, next |-> 0, sent |-> 0,
            queries |-> 0, dbErrors |-> 0, insert |-> 0]]

\* res.status(status).json({ success: false, message })
Send(q, status, message) ==
  [q EXCEPT !.pc = "done", !.status = status, !.message = message,
            !.log.sent = @ + 1]

\* req.user = user; next()
CallNext(q, user) ==
  [q EXCEPT !.pc = "handler", !.user = user, !.log.next = @ + 1]

\* db.query resolved
Queried(q) == [q EXCEPT !.log.queries = @ + 1]

\* db.query threw: the handler's catch answers 500 with the route's message
QueryFailed(q, message) ==
  [Send(q, 500, message) EXCEPT !.log.queries = @ + 1, !.log.dbErrors = @ + 1]

(***************************************************************************)
(* validateSalesAuth                                                       *)
(***************************************************************************)
PermittedRole(obj) == "role" \in DOMAIN obj /\ obj.role \in {"sales", "admin"}

\* jwt.verify(token, secret): the payload when the token is a JWT signed with
\* the secret and its exp is still ahead of the clock, and a throw otherwise
jwtVerify(token, secret) ==
  IF token \in Tokens /\ JwtOf(token).key = secret /\ now < JwtOf(token).payload.exp
  THEN [ok |-> TRUE, decoded |-> JwtOf(token).payload]
  ELSE [ok |-> FALSE]

\* Local validation that decodes the token without verifying its signature
LocalValidationUnverified(q, token) ==
  LET q1 == [q EXCEPT !.log.local = @ + 1]
  IN  IF env.JWT_SECRET = <<>> THEN Send(q1, 401, "Invalid token")
      ELSE IF token \notin Tokens THEN Send(q1, 401, "Invalid token")
      ELSE IF JwtOf(token).payload.exp < now THEN Send(q1, 401, "Token expired")
      ELSE IF ~PermittedRole(JwtOf(token).payload)
        THEN Send(q1, 403, "Access denied: Sales role required")
      ELSE IF "userId" \notin DOMAIN JwtOf(token).payload
        THEN Send(q1, 401, "Invalid token")
      ELSE CallNext(q1, [id |-> NumToString(JwtOf(token).payload.userId),
                         email |-> JwtOf(token).payload.email,
                         role |-> JwtOf(token).payload.role])

\* Option 2: local token validation, no remote endpoint being configured
LocalValidation(q, token) ==
  LET q1 == [q EXCEPT !.log.local = @ + 1]
      v == jwtVerify(token, env.JWT_SECRET)
  IN  IF env.JWT_SECRET = <<>> THEN Send(q1, 401, "Invalid token")
      ELSE IF ~v.ok THEN Send(q1, 401, "Invalid token")
      ELSE IF v.decoded.exp < now THEN Send(q1, 401, "Token expired")
      ELSE IF ~PermittedRole(v.decoded)
        THEN Send(q1, 403, "Access denied: Sales role required")
      ELSE IF "userId" \notin DOMAIN v.decoded THEN Send(q1, 401, "Invalid token")
      ELSE CallNext(q1, [id |-> NumToString(v.decoded.userId),
                         email |-> v.decoded.email, role |-> v.decoded.role])

\* The fallback with the role test left out
FallbackValidationAnyRole(q, token) ==
  LET q1 == [q EXCEPT !.log.local = @ + 1]
      v == jwtVerify(token, env.JWT_SECRET)
  IN  IF env.JWT_SECRET = <<>> THEN Send(q1, 401, "Invalid token")
      ELSE IF ~v.ok THEN Send(q1, 401, "Invalid token")
      ELSE IF v.decoded.exp < now THEN Send(q1, 401, "Token expired")
      ELSE IF "userId" \notin DOMAIN v.decoded THEN Send(q1, 401, "Invalid token")
      ELSE CallNext(q1, [id |-> NumToString(v.decoded.userId),
                         email |-> v.decoded.email, role |-> v.decoded.role])

\* The fallback to local token validation inside the remote call's catch
FallbackValidation(q, token) ==
  LET q1 == [q EXCEPT !.log.local = @ + 1]
      v == jwtVerify(token, env.JWT_SECRET)
  IN  IF env.JWT_SECRET = <<>> THEN Send(q1, 401, "Invalid token")
      ELSE IF ~v.ok THEN Send(q1, 401, "Invalid token")
      ELSE IF v.decoded.exp < now THEN Send(q1, 401, "Token expired")
      ELSE IF ~PermittedRole(v.decoded)
        THEN Send(q1, 403, "Access denied: Sales role required")
      ELSE IF "userId" \notin DOMAIN v.decoded THEN Send(q1, 401, "Invalid token")
      ELSE CallNext(q1, [id |-> NumToString(v.decoded.userId),
                         email |-> v.decoded.email, role |-> v.decoded.role])

\* The header test with startsWith('Bearer ') left out
HasBearerTokenAnyScheme(h) == h # UNDEFINED /\ h # <<>>

\* authHeader && authHeader.startsWith('Bearer ')
HasBearerToken(h) == h # UNDEFINED /\ h # <<>> /\ StartsWith(h, Bearer)

\* authHeader.split(' ')[1]: undefined when the header has no blank
TokenOf(h) == IF Len(Split(h, " ")) >= 2 THEN Split(h, " ")[2] ELSE UNDEFINED

\* user.id.toString() of the remote user object
IdToString(id) == IF "num" \in DOMAIN id THEN NumToString(id.num) ELSE id.str

\* error.code === 'ECONNABORTED' || error.message.includes('Network Error').
\* No message of the model contains "Network Error" except that very text.
IsTransportFailure(o) ==
  o.axios /\ (o.code = "ECONNABORTED" \/ o.message = "Network Error")

\* The try block after the remote call answered 2xx
\* The success branch with the return after its 403 missing: the refusal is
\* sent and the code runs on to req.user and next()
RemoteSuccessNoReturn(q, data) ==
  IF data = NullData THEN Send(q, 500, "Authentication service error")
  ELSE IF "user" \notin DOMAIN data
    THEN Send(q, 403, "Access denied: Sales role required")
  ELSE IF "id" \notin DOMAIN data.user
    THEN Send(q, 500, "Authentication service error")
  ELSE IF ~PermittedRole(data.user)
    THEN [CallNext(Send(q, 403, "Access denied: Sales role required"),
                   [id |-> IdToString(data.user.id), email |-> data.user.email])
            EXCEPT !.pc = "handler"]
  ELSE CallNext(q, [id |-> IdToString(data.user.id),
                    email |-> data.user.email, role |-> data.user.role])

RemoteSuccess(q, data) ==
  IF data = NullData THEN Send(q, 500, "Authentication service error")
  ELSE IF "user" \notin DOMAIN data \/ ~PermittedRole(data.user)
    THEN Send(q, 403, "Access denied: Sales role required")
  ELSE IF "id" \notin DOMAIN data.user
    THEN Send(q, 500, "Authentication service error")
  ELSE CallNext(q, [id |-> IdToString(data.user.id),
                    email |-> data.user.email, role |-> data.user.role])

\* The catch block falling back on every AxiosError
RemoteFailureAnyAxiosError(q, o) ==
  IF o.axios THEN FallbackValidation(q, q.token)
  ELSE Send(q, 500, "Authentication service error")

\* The catch block of the remote call
RemoteFailure(q, o) ==
  IF IsTransportFailure(o) THEN FallbackValidation(q, q.token)
  ELSE IF o.axios /\ o.response # NoResponse
    THEN [Send(q, o.response.status, "") EXCEPT !.data = o.response.data]
  ELSE Send(q, 500, "Authentication service error")

\* A request arrives: the route it addresses and its Authorization header.
Receive(r, routes, headers) ==
  /\ req[r].pc = "idle"
  /\ \E route \in routes, h \in headers :
       req' = [req EXCEPT ![r] = [Idle EXCEPT !.pc = "auth", !.route = route,
                                              !.authHeader = h]]
  /\ UNCHANGED <<env, store, blobs, now>>

\* validateSalesAuth up to its first await: the header test and then either
\* the remote call being issued or the whole of the local validation.
ValidateSalesAuth(r) ==
  /\ req[r].pc = "auth"
  /\ LET q == req[r]
         token == TokenOf(q.authHeader)
     IN  req' = [req EXCEPT ![r] =
           IF ~HasBearerToken(q.authHeader) THEN Send(q, 401, "No token provided")
           ELSE IF env.remote
             THEN [q EXCEPT !.pc = "remote", !.token = token, !.log.remote = @ + 1]
           ELSE LocalValidation([q EXCEPT !.token = token], token)]
  /\ UNCHANGED <<env, store, blobs, now>>

\* The middleware with a cache of validated tokens: a token that another
\* request in progress was accepted with is accepted again, whatever the
\* remote service answers this time.
RemoteReplyCached(r, outcomes) ==
  /\ req[r].pc = "remote"
  /\ \E o \in outcomes :
       LET q == [req[r] EXCEPT !.answer = o]
           hits == {r2 \in Reqs \ {r} : req[r2].token = q.token /\ req[r2].log.next >= 1}
       IN  req' = [req EXCEPT ![r] =
             IF hits # {} THEN CallNext(q, req[CHOOSE r2 \in hits : TRUE].user)
             ELSE IF o.kind = "response" THEN RemoteSuccess(q, o.data)
             ELSE RemoteFailure(q, o)]
  /\ UNCHANGED <<env, store, blobs, now>>

\* The remote call settles: validateSalesAuth resumes after its await.
RemoteReply(r, outcomes) ==
  /\ req[r].pc = "remote"
  /\ \E o \in outcomes :
       LET q == [req[r] EXCEPT !.answer = o]
       IN  req' = [req EXCEPT ![r] =
             IF o.kind = "response" THEN RemoteSuccess(q, o.data)
             ELSE RemoteFailure(q, o)]
  /\ UNCHANGED <<env, store, blobs, now>>

(***************************************************************************)
(* ClientModel: createClient, checkDuplicate                               *)
(***************************************************************************)
RequiredFields ==
  {"customer_type", "product", "insurance_provider", "client_name", "mobile_no"}

\* !customer_type || !product || !insurance_provider || !client_name || !mobile_no
MissingRequired(obj) == \E k \in RequiredFields : Falsy(obj, k)

\* A column of a row: NULL when the insert named no such column
Col(row, k) == IF k \in DOMAIN row THEN row[k] ELSE NULL

\* uuidv4(): the version-4 UUIDs the model draws from
Uuids ==
  {<<"3", "f", "a", "8", "5", "f", "6", "4", "-", "5", "7", "1", "7", "-",
     "4", "5", "6", "2", "-", "b", "3", "f", "c", "-",
     "2", "c", "9", "6", "3", "f", "6", "6", "a", "f", "a", "6">>,
   <<"0", "b", "d", "1", "c", "9", "e", "7", "-", "a", "2", "4", "4", "-",
     "4", "0", "0", "d", "-", "8", "e", "1", "1", "-",
     "7", "d", "5", "5", "0", "c", "a", "9", "3", "1", "b", "2">>}

\* `C${uuidv4().substring(0, 8)}`
GenerateId(uuid) == <<"C">> \o Substring(uuid, 0, 8)

\* dataWithId with the stamp ahead of the spread:
\* { id: clientId, created_at: new Date(), ...clientData }
CleanDataStampFirst(clientData, uuid) ==
  LET clientId == IF Falsy(clientData, "id") THEN GenerateId(uuid) ELSE clientData.id
  IN  Spread([id |-> clientId, created_at |-> now], clientData)

\* createClient up to its await: the id is taken from the data or generated,
\* the data is spread over it and created_at is stamped; no value of the
\* model is undefined, so cleanData is dataWithId.
CleanData(clientData, uuid) ==
  LET clientId == IF Falsy(clientData, "id") THEN GenerateId(uuid) ELSE clientData.id
  IN  Spread(Spread([id |-> clientId], clientData), [created_at |-> now])

\* checkDuplicate with the test count > 1
checkDuplicateOffByOne(rows, clientName, insuranceProvider) ==
  \E i, j \in 1..Len(rows) :
    /\ i # j
    /\ Col(rows[i], "client_name") = clientName
    /\ Col(rows[i], "insurance_provider") = insuranceProvider
    /\ Col(rows[j], "client_name") = clientName
    /\ Col(rows[j], "insurance_provider") = insuranceProvider

\* SELECT COUNT(*) ... WHERE client_name = @param0 AND insurance_provider = @param1
\* and the test count > 0
checkDuplicate(rows, clientName, insuranceProvider) ==
  \E i \in 1..Len(rows) :
    /\ Col(rows[i], "client_name") = clientName
    /\ Col(rows[i], "insurance_provider") = insuranceProvider

\* SELECT * FROM clients WHERE id = @param0, run after the INSERT; a NULL
\* parameter equals no row
SelectById(rows, id) ==
  IF id = NULL THEN <<>>
  ELSE SelectSeq(rows, LAMBDA row : Col(row, "id") = id)

(***************************************************************************)
(* POST /api/sales/clients and POST /api/sales/clients/with-documents      *)
(***************************************************************************)
FailureMessage(route) ==
  CASE route = "create" -> "Failed to create client"
    [] route = "withDocs" -> "Failed to create client with documents"
    [] route = "list" -> "Failed to get clients"
    [] route = "recent" -> "Failed to get recent clients"

\* error.message of what db.query throws, and of the Error createClient
\* throws when its SELECT returns no row
DbErrorMessage == "Login failed for user 'sa'"

NoRowMessage == "Failed to create client"

\* The message the catch of a handler answers with. The routes file exists in
\* two deployable copies whose router.post('/') differ in their catch: the
\* one called "createVerbose" here appends error.message to its message.
CatchMessage(route, errorMessage) ==
  IF route = "createVerbose" THEN "Failed to create client" \o ": " \o errorMessage
  ELSE FailureMessage(route)

MissingMessage ==
  "Missing required fields: customer_type, product, insurance_provider, client_name, mobile_no"

\* !req.user || !req.user.id
NoUserId(q) == q.user = EmptyObj \/ Falsy(q.user, "id")

\* The first synchronous stretch of router.post('/'): the required fields of
\* req.body are validated and checkDuplicate is awaited.
CreateStart(r, bodies) ==
  /\ req[r].pc = "handler" /\ req[r].route \in {"create", "createVerbose"}
  /\ \E body \in bodies :
       LET q == [req[r] EXCEPT !.input = body]
       IN  req' = [req EXCEPT ![r] =
             IF MissingRequired(body) THEN Send(q, 400, MissingMessage)
             ELSE [q EXCEPT !.pc = "checkDuplicate",
                            !.local = [clientData |-> body, files |-> {}]]]
  /\ UNCHANGED <<env, store, blobs, now>>

\* JSON.parse(req.body.clientData || '{}'): a form is its clientData field
\* (absent, text that is no JSON, or the text of a JSON value) and its files
ParsesToObject(form) == form.clientData.kind \in {"undefined", "object"}

ParsedClientData(form) ==
  IF form.clientData.kind = "undefined" THEN EmptyObj ELSE form.clientData.value

\* The first synchronous stretch of router.post('/with-documents')
WithDocsStart(r, forms) ==
  /\ req[r].pc = "handler" /\ req[r].route = "withDocs"
  /\ \E form \in forms :
       LET q == [req[r] EXCEPT !.input = form]
       IN  req' = [req EXCEPT ![r] =
             IF ~ParsesToObject(form) THEN Send(q, 500, FailureMessage("withDocs"))
             ELSE IF MissingRequired(ParsedClientData(form)) THEN Send(q, 400, MissingMessage)
             ELSE [q EXCEPT !.pc = "checkDuplicate",
                            !.local = [clientData |-> ParsedClientData(form),
                                       files |-> form.files]]]
  /\ UNCHANGED <<env, store, blobs, now>>

\* The slot once createClient awaits its INSERT
AwaitInsert(q, clientData, uuid) ==
  [q EXCEPT !.pc = "insert",
            !.local = [clientData |-> clientData,
                       cleanData |-> CleanData(clientData, uuid)]]

\* The object with the spread last: { sales_rep_id: salesRepId, ...req.body }
CreateClientDataBodyLast(body, salesRepId) == Spread([sales_rep_id |-> salesRepId], body)

\* const clientData = { ...req.body, sales_rep_id: salesRepId }
CreateClientData(body, salesRepId) == Spread(body, [sales_rep_id |-> salesRepId])

\* The object without the spread of documentUrls
NewClientDataNoUrls(clientId, clientData, documentUrls, salesRepId) ==
  Spread(Spread([id |-> clientId], clientData), [sales_rep_id |-> salesRepId])

\* const newClientData = { id: clientId, ...clientData, ...documentUrls,
\*                         sales_rep_id: salesRepId }
NewClientData(clientId, clientData, documentUrls, salesRepId) ==
  Spread(Spread(Spread([id |-> clientId], clientData), documentUrls),
         [sales_rep_id |-> salesRepId])

\* checkDuplicate answers (or its query fails) and the handler runs on to its
\* next await: the INSERT, or the first upload when files came with the form.
CheckDuplicate(r, uuids) ==
  /\ req[r].pc = "checkDuplicate"
  /\ \E dbOk \in BOOLEAN, u1 \in uuids, u2 \in uuids :
       LET q == Queried(req[r])
           cd == q.local.clientData
           salesRepId == parseInt(q.user.id)
           clientId == GenerateId(u1)
       IN  req' = [req EXCEPT ![r] =
             IF ~dbOk THEN QueryFailed(req[r], CatchMessage(q.route, DbErrorMessage))
             ELSE IF checkDuplicate(store, cd.client_name, cd.insurance_provider)
               THEN Send(q, 409, "A client with this name and insurance provider already exists")
             ELSE IF NoUserId(q)
               THEN Send(q, 401, "User ID not found in authentication data")
             ELSE IF isNaN(salesRepId) THEN Send(q, 500, "Invalid sales rep ID format")
             ELSE IF q.route \in {"create", "createVerbose"}
               THEN AwaitInsert(q, CreateClientData(cd, salesRepId), u2)
             ELSE IF q.local.files = {}
               THEN AwaitInsert(q, NewClientData(clientId, cd, EmptyObj, salesRepId), u2)
             ELSE [q EXCEPT !.pc = "upload",
                            !.local = [clientData |-> cd, files |-> q.local.files,
                                       clientId |-> clientId, salesRepId |-> salesRepId,
                                       documentUrls |-> EmptyObj]]]
  /\ UNCHANGED <<env, store, blobs, now>>

\* blockBlobClient.url of the blob `${clientId}/${documentType}_...`
BlobUrl(clientId, documentType) == clientId \o <<"/", documentType>>

\* The upload loop rejecting the request when an upload fails, after the
\* uploads before it have stored their blobs
UploadRejecting(r, uuids) ==
  /\ req[r].pc = "upload"
  /\ \E f \in req[r].local.files, ok \in BOOLEAN, u \in uuids :
       LET q == req[r]
           l == q.local
           urls == Spread(l.documentUrls, [k \in {f} |-> BlobUrl(l.clientId, f)])
           rest == l.files \ {f}
       IN  /\ blobs' = blobs \cup {[clientId |-> l.clientId, documentType |-> f]}
           /\ req' = [req EXCEPT ![r] =
                IF ~ok THEN Send(q, 400, "Document upload failed")
                ELSE IF rest = {}
                THEN AwaitInsert(q, NewClientData(l.clientId, l.clientData, urls, l.salesRepId), u)
                ELSE [q EXCEPT !.local.files = rest, !.local.documentUrls = urls]]
  /\ UNCHANGED <<env, store, now>>

\* One turn of the upload loop: uploadToAzure settles for one of the files. A
\* failed upload is logged and skipped. After the last file the handler runs
\* on to createClient's INSERT.
Upload(r, uuids) ==
  /\ req[r].pc = "upload"
  /\ \E f \in req[r].local.files, ok \in BOOLEAN, u \in uuids :
       LET q == req[r]
           l == q.local
           urls == IF ok THEN Spread(l.documentUrls, [k \in {f} |-> BlobUrl(l.clientId, f)])
                   ELSE l.documentUrls
           rest == l.files \ {f}
       IN  /\ blobs' = IF ok THEN blobs \cup {[clientId |-> l.clientId, documentType |-> f]}
                       ELSE blobs
           /\ req' = [req EXCEPT ![r] =
                IF rest = {}
                THEN AwaitInsert(q, NewClientData(l.clientId, l.clientData, urls, l.salesRepId), u)
                ELSE [q EXCEPT !.local.files = rest, !.local.documentUrls = urls]]
  /\ UNCHANGED <<env, store, now>>

\* The INSERT written as an upsert that replaces the newest row of the table
InsertOverwrite(r) ==
  /\ req[r].pc = "insert"
  /\ \E dbOk \in BOOLEAN :
       LET q == Queried(req[r])
           row == q.local.cleanData
       IN  IF ~dbOk
           THEN /\ req' = [req EXCEPT ![r] =
                       QueryFailed(req[r], CatchMessage(q.route, DbErrorMessage))]
                /\ store' = store
           ELSE /\ Len(store) < MaxStore
                /\ store' = IF store = <<>> THEN <<row>>
                             ELSE [store EXCEPT ![Len(store)] = row]
                /\ req' = [req EXCEPT ![r] =
                     [Send(q, 201, "Client created successfully")
                        EXCEPT !.data = <<row>>, !.log.insert = @ + 1]]
  /\ UNCHANGED <<env, blobs, now>>

\* The INSERT and the SELECT after it settle: the row is appended and the
\* first row with its id is returned, or the query fails.
Insert(r) ==
  /\ req[r].pc = "insert"
  /\ \E dbOk \in BOOLEAN :
       LET q == Queried(req[r])
           row == q.local.cleanData
           result == SelectById(Append(store, row), row.id)
       IN  IF ~dbOk
           THEN /\ req' = [req EXCEPT ![r] =
                       QueryFailed(req[r], CatchMessage(q.route, DbErrorMessage))]
                /\ store' = store
           ELSE /\ Len(store) < MaxStore
                /\ store' = Append(store, row)
                /\ req' = [req EXCEPT ![r] =
                     IF result = <<>>
                     THEN [Send(q, 500, CatchMessage(q.route, NoRowMessage))
                             EXCEPT !.log.insert = @ + 1]
                     ELSE [Send(q, 201, "Client created successfully")
                             EXCEPT !.data = <<result[1]>>, !.log.insert = @ + 1]]
  /\ UNCHANGED <<env, blobs, now>>

(***************************************************************************)
(* ClientModel: getClientsByCreator, getAllClientsBySalesRep               *)
(***************************************************************************)
UpperCase == <<"A", "B", "C", "D", "E", "F", "G", "H", "I", "J", "K", "L", "M",
               "N", "O", "P", "Q", "R", "S", "T", "U", "V", "W", "X", "Y", "Z">>
LowerCase == <<"a", "b", "c", "d", "e", "f", "g", "h", "i", "j", "k", "l", "m",
               "n", "o", "p", "q", "r", "s", "t", "u", "v", "w", "x", "y", "z">>

\* The case folding of the table's case-insensitive collation
Fold(c) ==
  IF \E i \in 1..26 : UpperCase[i] = c
  THEN LowerCase[CHOOSE i \in 1..26 : UpperCase[i] = c]
  ELSE c

\* text LIKE pattern: % matches any run of characters, _ any one character
RECURSIVE Like(_, _)
Like(text, pattern) ==
  IF pattern = <<>> THEN text = <<>>
  ELSE IF Head(pattern) = "%"
    THEN Like(text, Tail(pattern)) \/ (text # <<>> /\ Like(Tail(text), pattern))
  ELSE /\ text # <<>>
       /\ Head(pattern) = "_" \/ Fold(Head(pattern)) = Fold(Head(text))
       /\ Like(Tail(text), Tail(pattern))

\* column LIKE @param1: never true of a NULL column
ColLike(row, k, pattern) == Col(row, k) # NULL /\ Like(Col(row, k), pattern)

SearchColumns ==
  {"client_name", "email", "mobile_no", "product", "insurance_provider", "policy_no"}

IsBlank(c) == c = " "

\* String.prototype.trim
RECURSIVE TrimLeft(_)
TrimLeft(s) == IF s # <<>> /\ IsBlank(Head(s)) THEN TrimLeft(Tail(s)) ELSE s

RECURSIVE TrimRight(_)
TrimRight(s) ==
  IF s # <<>> /\ IsBlank(s[Len(s)]) THEN TrimRight(SubSeq(s, 1, Len(s) - 1)) ELSE s

Trim(s) == TrimRight(TrimLeft(s))

\* search && search.trim() !== ''
HasSearch(search) == search # UNDEFINED /\ search # <<>> /\ Trim(search) # <<>>

\* The WHERE clause without the parentheses around the LIKE alternatives:
\* sales_rep_id = @param0 AND client_name LIKE @param1 OR email LIKE ...
MatchesUnparenthesized(row, salesRepId, search) ==
  IF HasSearch(search)
  THEN \/ /\ row.sales_rep_id = salesRepId
          /\ ColLike(row, "client_name", <<"%">> \o search \o <<"%">>)
       \/ \E k \in SearchColumns \ {"client_name"} :
            ColLike(row, k, <<"%">> \o search \o <<"%">>)
  ELSE row.sales_rep_id = salesRepId

\* The WHERE clause of the count query and of the data query
Matches(row, salesRepId, search) ==
  /\ row.sales_rep_id = salesRepId
  /\ HasSearch(search) =>
       \E k \in SearchColumns : ColLike(row, k, <<"%">> \o search \o <<"%">>)

MatchingRows(rows, salesRepId, search) ==
  SelectSeq(rows, LAMBDA row : Matches(row, salesRepId, search))

\* ORDER BY created_at DESC: every order of the rows that descends in
\* created_at; rows of equal created_at come in an order the engine chooses
IndexOrders(n) ==
  {p \in [1..n -> 1..n] : \A i, j \in 1..n : i # j => p[i] # p[j]}

OrderedByCreatedAtDesc(rows) ==
  {[i \in 1..Len(rows) |-> rows[p[i]]] : p \in
     {p \in IndexOrders(Len(rows)) :
        \A i, j \in 1..Len(rows) :
          i < j => rows[p[i]].created_at >= rows[p[j]].created_at}}

\* OFFSET offset ROWS FETCH NEXT pageSize ROWS ONLY of an ordered result
OffsetFetch(ordered, offset, pageSize) ==
  SubSeq(ordered, offset + 1,
         IF offset + pageSize > Len(ordered) THEN Len(ordered) ELSE offset + pageSize)

\* The last limit rows of the ordered result in place of the first
TopOldest(ordered, limit) ==
  SubSeq(ordered, IF limit > Len(ordered) THEN 1 ELSE Len(ordered) - limit + 1, Len(ordered))

\* SELECT TOP limit of an ordered result
Top(ordered, limit) ==
  SubSeq(ordered, 1, IF limit > Len(ordered) THEN Len(ordered) ELSE limit)

\* The parameter with 0 in place of its default
QueryIntZeroDefault(query, k, dflt) == IF Falsy(query, k) THEN 0 ELSE parseInt(query[k])

\* req.query.x ? parseInt(req.query.x as string) : dflt
QueryInt(query, k, dflt) == IF Falsy(query, k) THEN dflt ELSE parseInt(query[k])

\* (page - 1) * pageSize in JavaScript numbers
Offset(page, pageSize) ==
  IF isNaN(page) \/ isNaN(pageSize) THEN NaN ELSE (page - 1) * pageSize

\* Math.floor(total / pageSize)
FloorDiv(total, pageSize) == total \div pageSize

\* Math.ceil(total / pageSize) for pageSize >= 1
CeilDiv(total, pageSize) == (total + pageSize - 1) \div pageSize

(***************************************************************************)
(* GET /api/sales/clients and GET /api/sales/clients/recent                *)
(***************************************************************************)
\* router.get('/') up to the count query being awaited
ListStart(r, queries) ==
  /\ req[r].pc = "handler" /\ req[r].route = "list"
  /\ \E query \in queries :
       LET q == [req[r] EXCEPT !.input = query]
           page == QueryInt(query, "page", 1)
           pageSize == QueryInt(query, "pageSize", 10)
           search == IF "search" \in DOMAIN query THEN query.search ELSE UNDEFINED
           numericSalesRepId == parseInt(q.user.id)
       IN  req' = [req EXCEPT ![r] =
             IF NoUserId(q) THEN Send(q, 401, "User ID not found in authentication data")
             ELSE IF isNaN(numericSalesRepId) THEN Send(q, 500, FailureMessage("list"))
             ELSE [q EXCEPT !.pc = "count",
                            !.local = [salesRepId |-> numericSalesRepId, page |-> page,
                                       pageSize |-> pageSize, search |-> search,
                                       offset |-> Offset(page, pageSize)]]]
  /\ UNCHANGED <<env, store, blobs, now>>

\* The count query settles and the data query is awaited.
ListCount(r) ==
  /\ req[r].pc = "count"
  /\ \E dbOk \in BOOLEAN :
       LET q == Queried(req[r])
           l == q.local
           total == Len(MatchingRows(store, l.salesRepId, l.search))
       IN  req' = [req EXCEPT ![r] =
             IF ~dbOk THEN QueryFailed(req[r], FailureMessage("list"))
             ELSE [q EXCEPT !.pc = "data", !.local = Spread(l, [total |-> total])]]
  /\ UNCHANGED <<env, store, blobs, now>>

\* OFFSET and FETCH NEXT take a number: offset >= 0 and pageSize >= 1
ValidOffsetFetch(offset, pageSize) ==
  ~isNaN(offset) /\ ~isNaN(pageSize) /\ offset >= 0 /\ pageSize >= 1

\* The data query settles and the page is sent with its pagination metadata.
ListData(r) ==
  /\ req[r].pc = "data"
  /\ \E dbOk \in BOOLEAN,
        ordered \in OrderedByCreatedAtDesc(
                      MatchingRows(store, req[r].local.salesRepId, req[r].local.search)) :
       LET q == Queried(req[r])
           l == q.local
           totalPages == CeilDiv(l.total, l.pageSize)
       IN  req' = [req EXCEPT ![r] =
             IF ~dbOk \/ ~ValidOffsetFetch(l.offset, l.pageSize)
             THEN QueryFailed(req[r], FailureMessage("list"))
             ELSE [Send(q, 200, "") EXCEPT
                     !.data = OffsetFetch(ordered, l.offset, l.pageSize),
                     !.local = Spread(l, [totalPages |-> totalPages,
                                          hasNextPage |-> l.page < totalPages,
                                          hasPrevPage |-> l.page > 1])]]
  /\ UNCHANGED <<env, store, blobs, now>>

\* router.get('/recent') up to the query of getClientsByCreator being awaited
RecentStart(r, queries) ==
  /\ req[r].pc = "handler" /\ req[r].route = "recent"
  /\ \E query \in queries :
       LET q == [req[r] EXCEPT !.input = query]
           limit == QueryInt(query, "limit", 10)
           salesRepId == parseInt(q.user.id)
       IN  req' = [req EXCEPT ![r] =
             IF NoUserId(q) THEN Send(q, 401, "User ID not found in authentication data")
             ELSE IF isNaN(salesRepId) THEN Send(q, 500, "Invalid sales rep ID format")
             ELSE [q EXCEPT !.pc = "recentQuery",
                            !.local = [salesRepId |-> parseInt(NumToString(salesRepId)),
                                       limit |-> limit]]]
  /\ UNCHANGED <<env, store, blobs, now>>

\* The query of getClientsByCreator settles and the list is sent.
RecentQuery(r) ==
  /\ req[r].pc = "recentQuery"
  /\ \E dbOk \in BOOLEAN,
        ordered \in OrderedByCreatedAtDesc(
                      MatchingRows(store, req[r].local.salesRepId, UNDEFINED)) :
       LET q == Queried(req[r])
           l == q.local
       IN  req' = [req EXCEPT ![r] =
             IF ~dbOk \/ isNaN(l.limit) \/ l.limit < 0
             THEN QueryFailed(req[r], FailureMessage("recent"))
             ELSE [Send(q, 200, "") EXCEPT !.data = Top(ordered, l.limit)]]
  /\ UNCHANGED <<env, store, blobs, now>>

(***************************************************************************)
(* The service                                                             *)
(***************************************************************************)
\* GET /health: answered 200 at once, in front of the routes and without
\* authentication; it reads the clock and the environment only.
Health(r) ==
  /\ req[r].pc = "idle"
  /\ req' = [req EXCEPT ![r] =
       [Send(Idle, 200, "ok") EXCEPT !.route = "health"]]
  /\ UNCHANGED <<env, store, blobs, now>>

\* The response has left: the slot is free for the next request.
Finish(r) ==
  /\ req[r].pc = "done"
  /\ req' = [req EXCEPT ![r] = Idle]
  /\ UNCHANGED <<env, store, blobs, now>>

\* The server clock advances.
Tick ==
  /\ now < MaxTime
  /\ now' = now + 1
  /\ UNCHANGED <<env, store, blobs, req>>

\* The process starts with its environment read and no request in flight;
\* the table holds the rows earlier runs of the service left in it.
InitWith(envs, stores) ==
  /\ env \in envs
  /\ store \in stores
  /\ blobs = {}
  /\ now = 0
  /\ req = [r \in Reqs |-> Idle]

(***************************************************************************)
(* Request inputs                                                          *)
(***************************************************************************)
Routes == {"create", "withDocs", "list", "recent"}

Names == {<<"A", "c">>, <<"b">>}
Providers == {<<"p">>, <<"q">>}

\* A body with every required field
ValidBody(name, provider) ==
  [customer_type |-> <<"I">>, product |-> <<"H">>, insurance_provider |-> provider,
   client_name |-> name, mobile_no |-> <<"7">>]

\* obj without the property k
Without(obj, k) == [j \in DOMAIN obj \ {k} |-> obj[j]]

\* Bodies in which one required field is absent, null or empty, or all are absent
DefectiveBodies ==
  LET b == ValidBody(<<"b">>, <<"p">>)
  IN  {Without(b, k) : k \in RequiredFields}
      \cup {[b EXCEPT ![k] = v] : k \in RequiredFields, v \in {NULL, <<>>}}
      \cup {EmptyObj}

\* Properties a body may carry besides the required fields
Extras ==
  {EmptyObj, [id |-> NULL], [id |-> <<>>], [id |-> <<"X", "1">>],
   [sales_rep_id |-> 7], [id |-> <<"X", "1">>, sales_rep_id |-> 2]}

Bodies ==
  {Spread(ValidBody(<<"b">>, <<"p">>), x) : x \in Extras}
  \cup {ValidBody(<<"A", "c">>, <<"p">>), ValidBody(<<"b">>, <<"q">>)}
  \cup DefectiveBodies

\* req.body.clientData: absent, a text that is no JSON, the text null, or the
\* text of a JSON object
ClientDataTexts ==
  {[kind |-> "undefined"], [kind |-> "malformed"], [kind |-> "null"]}
  \cup {[kind |-> "object", value |-> b] : b \in Bodies}

Forms ==
  [clientData : ClientDataTexts, files : {{}}]
  \cup [clientData : {[kind |-> "object", value |-> ValidBody(<<"b">>, <<"p">>)],
                      [kind |-> "object",
                       value |-> Spread(ValidBody(<<"b">>, <<"p">>), [id |-> <<"X", "1">>])]},
        files : {{"nic_proof"}}]

ListQueries ==
  {EmptyObj}
  \cup {[page |-> pg, pageSize |-> ps] :
          pg \in {<<"1">>, <<"2">>, <<"0">>, <<"x">>}, ps \in {<<"1">>, <<"2">>, <<"0">>, <<"x">>}}
  \cup {[search |-> se] : se \in {<<>>, <<" ">>, <<"a">>, <<"%">>, <<"P">>}}
  \cup {[search |-> <<"b">>, pageSize |-> <<"1">>]}

RecentQueries ==
  {EmptyObj} \cup {[limit |-> li] : li \in {<<"1">>, <<"0">>, <<"x">>, <<>>}}

\* Headers and remote answers of the specifications that explore the routes:
\* two principals by local validation, and by the remote service the ids a
\* route has to tell apart
RouteHeaders == {UNDEFINED, Bearer \o <<"s">>, Bearer \o <<"a">>}

RouteOutcomes ==
  {[kind |-> "response", data |-> [user |-> [id |-> i, email |-> "r@x", role |-> "sales"]]] :
      i \in {[num |-> 2], [str |-> <<"1", "x">>], [str |-> <<"x">>], [str |-> <<>>]}}

(***************************************************************************)
(* Specifications                                                          *)
(***************************************************************************)
\* The routes, one request at a time: every body and form, the principals of
\* RouteHeaders and RouteOutcomes.
Init == InitWith({e \in Envs : e.JWT_SECRET # <<>>}, {<<>>})

Next ==
  \/ Receive(1, Routes, RouteHeaders)
  \/ ValidateSalesAuth(1)
  \/ RemoteReply(1, RouteOutcomes)
  \/ CreateStart(1, Bodies)
  \/ WithDocsStart(1, Forms)
  \/ CheckDuplicate(1, Uuids)
  \/ Upload(1, Uuids)
  \/ Insert(1)
  \/ ListStart(1, ListQueries)
  \/ ListCount(1)
  \/ ListData(1)
  \/ RecentStart(1, RecentQueries)
  \/ RecentQuery(1)
  \/ Finish(1)

Spec == Init /\ [][Next]_vars

\* The middleware, requests side by side: every header and every answer of
\* the remote service, in front of the recent route.
InitAuth == InitWith(Envs, {<<>>})

NextAuth ==
  \/ \E r \in Reqs : Receive(r, {"recent"}, Headers)
  \/ \E r \in Reqs : ValidateSalesAuth(r)
  \/ \E r \in Reqs : RemoteReply(r, RemoteOutcomes)
  \/ \E r \in Reqs : RecentStart(r, {EmptyObj})
  \/ \E r \in Reqs : RecentQuery(r)
  \/ \E r \in Reqs : Finish(r)
  \/ Tick

SpecAuth == InitAuth /\ [][NextAuth]_vars

\* The two create routes, requests side by side, by one principal validated
\* locally: bodies that share a (client_name, insurance_provider) pair and
\* one that does not.
RaceBodies ==
  {ValidBody(<<"b">>, <<"p">>), Spread(ValidBody(<<"b">>, <<"p">>), [email |-> <<"e">>]),
   ValidBody(<<"b">>, <<"q">>)}

InitRace == InitWith({[remote |-> FALSE, JWT_SECRET |-> <<"k">>]}, {<<>>})

NextRace ==
  \/ \E r \in Reqs : Receive(r, {"create", "withDocs"}, {Bearer \o <<"s">>})
  \/ \E r \in Reqs : ValidateSalesAuth(r)
  \/ \E r \in Reqs : CreateStart(r, RaceBodies)
  \/ \E r \in Reqs :
       WithDocsStart(r, [clientData : {[kind |-> "object", value |-> b] : b \in RaceBodies},
                         files : {{}}])
  \/ \E r \in Reqs : CheckDuplicate(r, Uuids)
  \/ \E r \in Reqs : Insert(r)
  \/ \E r \in Reqs : Finish(r)

SpecRace == InitRace /\ [][NextRace]_vars

\* The middleware at every reading of the clock: bearer tokens only, the
\* clock standing still while requests are validated.
InitClock ==
  /\ env \in Envs
  /\ store = <<>>
  /\ blobs = {}
  /\ now \in 0..MaxTime
  /\ req = [r \in Reqs |-> Idle]

NextClock ==
  \/ \E r \in Reqs : Receive(r, {"recent"}, {Bearer \o t : t \in Tokens})
  \/ \E r \in Reqs : ValidateSalesAuth(r)
  \/ \E r \in Reqs : RemoteReply(r, RemoteOutcomes)
  \/ \E r \in Reqs : RecentStart(r, {EmptyObj})
  \/ \E r \in Reqs : RecentQuery(r)
  \/ \E r \in Reqs : Finish(r)

SpecClock == InitClock /\ [][NextClock]_vars

\* Rows as createClient leaves them in the table: two of sales rep 1 created
\* at the same instant, a later one of sales rep 1, and one of sales rep 2
SampleRow(n, name, provider, salesRepId, createdAt) ==
  Spread(ValidBody(name, provider),
         [id |-> <<"C", "0", "0", "0", "0", "0", "0", "0", DigitChar(n)>>,
          sales_rep_id |-> salesRepId, created_at |-> createdAt])

SampleRows ==
  {SampleRow(1, <<"A", "c">>, <<"p">>, 1, 0), SampleRow(2, <<"b">>, <<"p">>, 1, 0),
   SampleRow(3, <<"b">>, <<"q">>, 1, 1), SampleRow(4, <<"A", "c">>, <<"q">>, 2, 1)}

\* The tables of up to MaxStore of these rows, in any order of insertion
QueryStores ==
  {t \in UNION {[1..n -> SampleRows] : n \in 0..MaxStore} :
     \A i, j \in 1..Len(t) : i # j => t[i] # t[j]}

\* Listing queries with search terms that carry a blank or a LIKE wildcard
QueryListQueries ==
  ListQueries \cup {[search |-> <<" ", "b">>], [search |-> <<"_">>]}

\* The two read routes, requests side by side, over a table that holds rows
\* already and does not change: one principal validated locally.
InitQuery == InitWith({[remote |-> FALSE, JWT_SECRET |-> <<"k">>]}, QueryStores)

NextQuery ==
  \/ \E r \in Reqs : Receive(r, {"list", "recent"}, {Bearer \o <<"s">>})
  \/ \E r \in Reqs : ValidateSalesAuth(r)
  \/ \E r \in Reqs : ListStart(r, QueryListQueries)
  \/ \E r \in Reqs : ListCount(r)
  \/ \E r \in Reqs : ListData(r)
  \/ \E r \in Reqs : RecentStart(r, RecentQueries)
  \/ \E r \in Reqs : RecentQuery(r)
  \/ \E r \in Reqs : Finish(r)

SpecQuery == InitQuery /\ [][NextQuery]_vars

\* Creates and reads side by side: two principals validated locally, JSON
\* creates of two (client_name, insurance_provider) pairs, listings and
\* recent requests with default parameters.
InterleaveBodies == {ValidBody(<<"b">>, <<"p">>), ValidBody(<<"b">>, <<"q">>)}

InitInterleave == InitWith({[remote |-> FALSE, JWT_SECRET |-> <<"k">>]}, {<<>>})

NextInterleave ==
  \/ \E r \in Reqs :
       Receive(r, {"create", "list", "recent"}, {Bearer \o <<"s">>, Bearer \o <<"a">>})
  \/ \E r \in Reqs : ValidateSalesAuth(r)
  \/ \E r \in Reqs : CreateStart(r, InterleaveBodies)
  \/ \E r \in Reqs : CheckDuplicate(r, Uuids)
  \/ \E r \in Reqs : Insert(r)
  \/ \E r \in Reqs : ListStart(r, {EmptyObj})
  \/ \E r \in Reqs : ListCount(r)
  \/ \E r \in Reqs : ListData(r)
  \/ \E r \in Reqs : RecentStart(r, {EmptyObj})
  \/ \E r \in Reqs : RecentQuery(r)
  \/ \E r \in Reqs : Finish(r)

SpecInterleave == InitInterleave /\ [][NextInterleave]_vars

\* The with-documents route, one request at a time: forms with none, one or
\* two files, every upload succeeding or failing.
DocForms ==
  [clientData : {[kind |-> "object", value |-> b] : b \in InterleaveBodies},
   files : SUBSET {"nic_proof", "dob_proof"}]

InitDocs == InitWith({[remote |-> FALSE, JWT_SECRET |-> <<"k">>]}, {<<>>})

NextDocs ==
  \/ Receive(1, {"withDocs"}, {Bearer \o <<"s">>})
  \/ ValidateSalesAuth(1)
  \/ WithDocsStart(1, DocForms)
  \/ CheckDuplicate(1, Uuids)
  \/ Upload(1, Uuids)
  \/ Insert(1)
  \/ Finish(1)

SpecDocs == InitDocs /\ [][NextDocs]_vars

\* Every operation of the service, requests side by side, over a table that
\* holds a row already: one principal validated locally, a create and a
\* form of two pairs, with a file or none, reads with default parameters.
ServiceForms ==
  [clientData : {[kind |-> "object", value |-> ValidBody(<<"A", "c">>, <<"q">>)]},
   files : {{}, {"nic_proof"}}]

ServiceStores == {<<SampleRow(1, <<"A", "c">>, <<"p">>, 1, 0)>>}

InitService == InitWith({[remote |-> FALSE, JWT_SECRET |-> <<"k">>]}, ServiceStores)

NextService ==
  \/ \E r \in Reqs : Receive(r, Routes, {Bearer \o <<"s">>})
  \/ \E r \in Reqs : ValidateSalesAuth(r)
  \/ \E r \in Reqs : CreateStart(r, {ValidBody(<<"b">>, <<"p">>)})
  \/ \E r \in Reqs : WithDocsStart(r, ServiceForms)
  \/ \E r \in Reqs : CheckDuplicate(r, Uuids)
  \/ \E r \in Reqs : Upload(r, Uuids)
  \/ \E r \in Reqs : Insert(r)
  \/ \E r \in Reqs : ListStart(r, {EmptyObj})
  \/ \E r \in Reqs : ListCount(r)
  \/ \E r \in Reqs : ListData(r)
  \/ \E r \in Reqs : RecentStart(r, {EmptyObj})
  \/ \E r \in Reqs : RecentQuery(r)
  \/ \E r \in Reqs : Health(r)
  \/ \E r \in Reqs : Finish(r)

SpecService == InitService /\ [][NextService]_vars

\* Storage failures in every route that queries, one request at a time: both
\* copies of router.post('/'), one principal validated locally, one body.
FailureForms ==
  [clientData : {[kind |-> "object", value |-> ValidBody(<<"A", "c">>, <<"q">>)]},
   files : {{}}]

InitFailure == InitWith({[remote |-> FALSE, JWT_SECRET |-> <<"k">>]}, {<<>>})

NextFailure ==
  \/ Receive(1, Routes \cup {"createVerbose"}, {Bearer \o <<"s">>})
  \/ ValidateSalesAuth(1)
  \/ CreateStart(1, {ValidBody(<<"b">>, <<"p">>)})
  \/ WithDocsStart(1, FailureForms)
  \/ CheckDuplicate(1, Uuids)
  \/ Insert(1)
  \/ ListStart(1, ListQueries)
  \/ ListCount(1)
  \/ ListData(1)
  \/ RecentStart(1, RecentQueries)
  \/ RecentQuery(1)
  \/ Finish(1)

SpecFailure == InitFailure /\ [][NextFailure]_vars

\* Creates while the clock runs, one request at a time: bodies and forms
\* with and without a created_at of their own.
StampBodies ==
  {Spread(ValidBody(<<"b">>, <<"p">>), [created_at |-> 1]), ValidBody(<<"b">>, <<"q">>)}

StampForms ==
  [clientData : {[kind |-> "object",
                  value |-> Spread(ValidBody(<<"A", "c">>, <<"q">>), [created_at |-> 1])]},
   files : {{}}]

InitStamp == InitWith({[remote |-> FALSE, JWT_SECRET |-> <<"k">>]}, {<<>>})

NextStamp ==
  \/ Receive(1, {"create", "withDocs"}, {Bearer \o <<"s">>})
  \/ ValidateSalesAuth(1)
  \/ CreateStart(1, StampBodies)
  \/ WithDocsStart(1, StampForms)
  \/ CheckDuplicate(1, Uuids)
  \/ Insert(1)
  \/ Finish(1)
  \/ Tick

SpecStamp == InitStamp /\ [][NextStamp]_vars

\* The middleware under the scheduling of the runtime, one request at a
\* time: the middleware runs once the request has arrived, and the remote
\* call settles, with an answer or with the error of its 5000 ms timeout.
NextMiddleware ==
  \/ Receive(1, {"recent"}, Headers)
  \/ ValidateSalesAuth(1)
  \/ RemoteReply(1, RemoteOutcomes)
  \/ RecentStart(1, {EmptyObj})
  \/ RecentQuery(1)
  \/ Finish(1)
  \/ Tick

SpecMiddleware ==
  /\ InitAuth
  /\ [][NextMiddleware]_vars
  /\ WF_vars(ValidateSalesAuth(1))
  /\ WF_vars(RemoteReply(1, RemoteOutcomes))

(***************************************************************************)
(* Properties                                                              *)
(***************************************************************************)
CreateRoutes == {"create", "withDocs"}

\* The handler of request r was invoked by the middleware
HandlerInvoked(r) == req[r].log.next >= 1

\* Request r inserted a row
Inserted(r) == req[r].log.insert >= 1

\* a text is the decimal numeral of a number: digits, no leading zero
IsNumeral(s) ==
  /\ s # <<>>
  /\ \A i \in 1..Len(s) : s[i] \in Digits
  /\ Len(s) = 1 \/ s[1] # "0"

\* an id of the form C followed by 8 lowercase hexadecimal characters
IsGeneratedId(id) ==
  /\ Len(id) = 9
  /\ id[1] = "C"
  /\ \A i \in 2..9 : id[i] \in HexLower

\* the object a create request carried: req.body, or the clientData of the form
CarriedData(q) ==
  IF q.route = "create" THEN q.input
  ELSE IF q.input.clientData.kind = "object" THEN q.input.clientData.value
  ELSE EmptyObj

\* two rows with the same (client_name, insurance_provider) pair
SamePair(a, b) ==
  a.client_name = b.client_name /\ a.insurance_provider = b.insurance_provider

\* C1: in every reachable state of the client store no two rows share the
\* same (client_name, insurance_provider) pair, also when the duplicate
\* check and the insert of two create requests interleave.
C1_UniquePairs ==
  \A i, j \in 1..Len(store) : i # j => ~SamePair(store[i], store[j])

\* C2: a create request answered 201 (either route) has stored a row whose
\* sales_rep_id is the number of the principal the middleware resolved
\* (parseInt of req.user.id, which is the id itself when the id is a
\* numeral), whatever sales_rep_id the body or the clientData carried.
C2_OwnerIsPrincipal ==
  \A r \in Reqs :
    (req[r].status = 201 /\ req[r].route \in CreateRoutes) =>
      LET row == req[r].local.cleanData
      IN  /\ \E i \in 1..Len(store) : store[i] = row
          /\ row.sales_rep_id = parseInt(req[r].user.id)
          /\ IsNumeral(req[r].user.id) => NumToString(row.sales_rep_id) = req[r].user.id

\* a 201 of the with-documents route whose clientData carried another owner
C2_Witness ==
  \E r \in Reqs :
    /\ req[r].status = 201 /\ req[r].route = "withDocs"
    /\ "sales_rep_id" \in DOMAIN CarriedData(req[r])
    /\ CarriedData(req[r]).sales_rep_id # req[r].local.cleanData.sales_rep_id
    /\ IsNumeral(req[r].user.id)

\* C3: every row a listing (with or without search) or a recent request
\* returns has the sales_rep_id of the requesting principal (parseInt of
\* req.user.id, the id itself when it is a numeral), for any page, pageSize,
\* limit and search.
C3_OnlyOwnRows ==
  \A r \in Reqs :
    (req[r].status = 200 /\ req[r].route \in {"list", "recent"}) =>
      \A i \in 1..Len(req[r].data) :
        /\ req[r].data[i].sales_rep_id = parseInt(req[r].user.id)
        /\ IsNumeral(req[r].user.id) =>
             NumToString(req[r].data[i].sales_rep_id) = req[r].user.id

\* a search listing that returned rows while the table holds a row of
\* another sales rep that the search term matches as well
C3_Witness ==
  \E r \in Reqs :
    /\ req[r].status = 200 /\ req[r].route = "list"
    /\ "search" \in DOMAIN req[r].input /\ req[r].input.search = <<"b">>
    /\ Len(req[r].data) >= 1
    /\ \E i \in 1..Len(store) :
         /\ store[i].sales_rep_id # req[r].data[1].sales_rep_id
         /\ store[i].client_name = <<"b">>

\* C4: a create request with every required field whose (client_name,
\* insurance_provider) pair was stored before it started is answered 409
\* (its storage query not failing) and inserts nothing. Requests are
\* handled one after the other here, so a row other than the request's own
\* was there before the request started.
C4_SecondIsConflict ==
  \A r \in Reqs :
    ( /\ req[r].pc = "done" /\ req[r].route \in CreateRoutes
      /\ HandlerInvoked(r)
      /\ \A k \in RequiredFields :
           k \in DOMAIN CarriedData(req[r]) /\ CarriedData(req[r])[k] \notin {NULL, <<>>}
      /\ req[r].log.dbErrors = 0
      /\ \E i \in 1..Len(store) :
           /\ SamePair(store[i], CarriedData(req[r]))
           /\ ~(Inserted(r) /\ i = Len(store)) )
    => (req[r].status = 409 /\ ~Inserted(r))

\* a 409 after the same pair was stored by an earlier request
C4_Witness ==
  \E r \in Reqs :
    /\ req[r].status = 409 /\ req[r].route = "create"
    /\ \E i \in 1..Len(store) : SamePair(store[i], req[r].input)

\* a required field of the create request is absent or empty
C5_FieldMissing(q) ==
  \/ q.route = "withDocs" /\ q.input.clientData.kind \in {"undefined", "null"}
  \/ /\ q.route = "withDocs" => q.input.clientData.kind = "object"
     /\ \E k \in RequiredFields :
          k \notin DOMAIN CarriedData(q) \/ CarriedData(q)[k] \in {NULL, <<>>}

\* C5: an authenticated create request (either route) in which a required
\* field is absent or empty is answered 400 and inserts no row.
C5_MissingFieldIs400 ==
  \A r \in Reqs :
    (req[r].pc = "done" /\ req[r].route \in CreateRoutes /\ HandlerInvoked(r)
       /\ C5_FieldMissing(req[r]))
    => (req[r].status = 400 /\ ~Inserted(r))

\* C6: the record a create answered 201 returns has an id of the form C plus
\* 8 lowercase hexadecimal characters, whatever the body contains.
C6_ReturnedIdGenerated ==
  \A r \in Reqs :
    (req[r].status = 201 /\ req[r].route \in CreateRoutes) =>
      IsGeneratedId(req[r].data[1].id)

\* C7: when the data given to createClient has no id (the key absent, null
\* or the empty string) the row that is inserted carries a generated id.
C7_NoIdMeansGenerated ==
  \A r \in Reqs :
    (Inserted(r) /\ req[r].route \in CreateRoutes) =>
      LET given == req[r].local.clientData
      IN  ("id" \notin DOMAIN given \/ given.id \in {NULL, <<>>}) =>
            IsGeneratedId(req[r].local.cleanData.id)

\* the Authorization header is absent or does not start with "Bearer "
C8_NoBearer(h) ==
  \/ h = UNDEFINED
  \/ Len(h) < 7
  \/ SubSeq(h, 1, 7) # <<"B", "e", "a", "r", "e", "r", " ">>

\* C8: a request whose Authorization header is absent or does not start with
\* "Bearer " is answered 401 by the first step of the middleware: no remote
\* call, no local verification, req.user unset, the handler not invoked.
C8_NoBearerIs401 ==
  \A r \in Reqs :
    (req[r].pc \notin {"idle", "auth"} /\ C8_NoBearer(req[r].authHeader)) =>
      /\ req[r].pc = "done" /\ req[r].status = 401
      /\ req[r].log.remote = 0 /\ req[r].log.local = 0
      /\ req[r].user = EmptyObj /\ ~HandlerInvoked(r)

\* a header of another scheme was answered
C8_Witness ==
  \E r \in Reqs :
    /\ req[r].pc = "done"
    /\ req[r].authHeader = <<"B", "a", "s", "i", "c", " ", "s">>

\* the token is a JWT the configured secret verifies, not yet expired
C9_Verifies(t) ==
  t \in Tokens /\ JwtOf(t).key = env.JWT_SECRET /\ now < JwtOf(t).payload.exp

\* a role other than sales and admin, the absent role included
C9_RoleRefused(obj) == "role" \notin DOMAIN obj \/ obj.role \notin {"sales", "admin"}

\* C9: on every validation path a token whose role is neither sales nor admin
\* is answered 403 although the remote check or the signature check
\* succeeded, and whenever a handler runs req.user.role is sales or admin.
C9_OtherRolesAre403 ==
  \A r \in Reqs :
    /\ HandlerInvoked(r) => req[r].user.role \in {"sales", "admin"}
    /\ ( /\ req[r].answer.kind = "response"
         /\ req[r].answer.data # NullData
         /\ "user" \in DOMAIN req[r].answer.data
         /\ C9_RoleRefused(req[r].answer.data.user) )
       => (req[r].status = 403 /\ ~HandlerInvoked(r))
    /\ ( /\ req[r].log.local >= 1
         /\ C9_Verifies(req[r].token)
         /\ C9_RoleRefused(JwtOf(req[r].token).payload) )
       => (req[r].status = 403 /\ ~HandlerInvoked(r))

\* a viewer token answered 403 by the fallback after a transport failure
C9_Witness ==
  \E r \in Reqs :
    /\ req[r].status = 403
    /\ req[r].log.remote = 1 /\ req[r].log.local = 1
    /\ req[r].token = <<"v">>

\* C10: when the remote call fails with a connectivity or timeout error (an
\* error that carries no response of the remote service), local
\* verification is attempted, and the request is authenticated if the
\* secret verifies the token, it is unexpired and its role is permitted.
C10_FallbackOnConnectivityFailure ==
  \A r \in Reqs :
    ( /\ req[r].answer.kind = "error" /\ req[r].answer.axios
      /\ req[r].answer.response = NoResponse
      /\ C9_Verifies(req[r].token)
      /\ ~C9_RoleRefused(JwtOf(req[r].token).payload)
      /\ "userId" \in DOMAIN JwtOf(req[r].token).payload )
    => (req[r].log.local = 1 /\ HandlerInvoked(r))

\* C11: when the remote call fails with an error response of the remote
\* service (401, 403), the middleware answers with that status and that
\* body, enters no local verification and does not invoke the handler.
C11_RemoteErrorPropagated ==
  \A r \in Reqs :
    ( /\ req[r].answer.kind = "error"
      /\ req[r].answer.axios
      /\ req[r].answer.response # NoResponse )
    => /\ req[r].log.local = 0
       /\ ~HandlerInvoked(r)
       /\ req[r].pc = "done"
       /\ req[r].status = req[r].answer.response.status
       /\ req[r].data = req[r].answer.response.data

\* the remote service refused with 403 a token that local verification accepts
C11_Witness ==
  \E r \in Reqs :
    /\ req[r].answer.kind = "error"
    /\ req[r].answer.response # NoResponse
    /\ req[r].answer.response.status = 403
    /\ req[r].status = 403
    /\ req[r].token = <<"s">>
    /\ env.JWT_SECRET = <<"k">>

\* the token of the request is a JWT whose exp is earlier than the clock
C12_Expired(q) == q.token \in Tokens /\ JwtOf(q.token).payload.exp < now

\* C12: a token whose exp is earlier than the current time never reaches a
\* route handler, whichever path validated it, and the local verification
\* (local-only or fallback) answers it 401. The clock stands still here, so
\* the token was expired when the request arrived.
C12_ExpiredNeverAccepted ==
  \A r \in Reqs :
    C12_Expired(req[r]) =>
      /\ ~HandlerInvoked(r)
      /\ (req[r].log.local >= 1 /\ req[r].pc = "done") => req[r].status = 401

\* the signature of the token does not verify under the configured secret
C13_BadSignature(q) == q.token \notin Tokens \/ JwtOf(q.token).key # env.JWT_SECRET

\* C13: with no remote endpoint configured no outbound call is made and a
\* bearer request is decided by local verification; in local verification
\* (local-only or fallback) an unset JWT_SECRET or a signature that does not
\* verify is answered 401 and the handler is not invoked.
C13_LocalVerification ==
  \A r \in Reqs :
    /\ ~env.remote => (req[r].log.remote = 0 /\ req[r].answer = NoAnswer)
    /\ (~env.remote /\ req[r].pc \notin {"idle", "auth"} /\ ~C8_NoBearer(req[r].authHeader))
         => req[r].log.local = 1
    /\ (req[r].log.local >= 1 /\ (env.JWT_SECRET = <<>> \/ C13_BadSignature(req[r])))
         => (req[r].pc = "done" /\ req[r].status = 401 /\ ~HandlerInvoked(r))

\* a token signed with another key was refused by local-only verification
C13_Witness ==
  \E r \in Reqs :
    /\ ~env.remote /\ env.JWT_SECRET = <<"k">>
    /\ req[r].token = <<"f">>
    /\ req[r].log.local = 1
    /\ req[r].status = 401

\* no row occurs twice in the sequence
NoDuplicates(rows) == \A i, j \in 1..Len(rows) : i # j => rows[i] # rows[j]

\* the rows come in descending created_at order
NewestFirst(rows) ==
  \A i, j \in 1..Len(rows) : i < j => rows[i].created_at >= rows[j].created_at

\* the rows of the table the principal of the request owns
OwnedRows(q) == SelectSeq(store, LAMBDA row : row.sales_rep_id = parseInt(q.user.id))

\* C14: pagination law over a table that does not change. Two listings of
\* one principal with the same search and the same pageSize >= 1, one of
\* page 1 and one of page 2, where totalPages is 2: the two pages together
\* hold exactly total records, none twice, in descending created_at order,
\* also when records share their created_at.
C14_PaginationLaw ==
  \A r1, r2 \in Reqs :
    ( /\ r1 # r2
      /\ req[r1].route = "list" /\ req[r1].status = 200
      /\ req[r2].route = "list" /\ req[r2].status = 200
      /\ req[r1].user.id = req[r2].user.id
      /\ req[r1].local.search = req[r2].local.search
      /\ req[r1].local.pageSize = req[r2].local.pageSize
      /\ req[r1].local.pageSize >= 1
      /\ req[r1].local.page = 1 /\ req[r2].local.page = 2
      /\ req[r1].local.totalPages = 2 )
    => LET all == req[r1].data \o req[r2].data
       IN  /\ Len(all) = req[r1].local.total
           /\ NoDuplicates(all)
           /\ NewestFirst(all)

\* the query parameter is absent or does not start a number
C16_AbsentOrNotNumeric(query, k) ==
  k \notin DOMAIN query \/ query[k] = <<>> \/ query[k][1] \notin Digits

\* C16: in a listing request page is 1 and pageSize is 10 whenever the query
\* parameter is absent or not numeric, and such a request is served with
\* status 200 when its queries do not fail for another reason.
C16_DefaultsApplied ==
  \A r \in Reqs :
    (req[r].route = "list" /\ req[r].pc \in {"count", "data"}) =>
      /\ C16_AbsentOrNotNumeric(req[r].input, "page") => req[r].local.page = 1
      /\ C16_AbsentOrNotNumeric(req[r].input, "pageSize") => req[r].local.pageSize = 10

\* term occurs in text as a literal substring, ignoring case
C17_Contains(text, term) ==
  \E i \in 0..(Len(text) - Len(term)) :
    \A j \in 1..Len(term) : Fold(text[i + j]) = Fold(term[j])

\* one of the six searched columns of the row contains the term
C17_Found(row, term) ==
  \E k \in SearchColumns : k \in DOMAIN row /\ row[k] # NULL /\ C17_Contains(row[k], term)

\* C17: a listing of page 1 that holds every result (pageSize 10) returns,
\* when search is present and not blank, exactly the principal's records in
\* which the trimmed term occurs, ignoring case, as a literal substring of
\* one of the six columns; when search is absent or blank it returns every
\* record of the principal.
C17_SearchIsSubstring ==
  \A r \in Reqs :
    ( /\ req[r].route = "list" /\ req[r].status = 200
      /\ req[r].local.page = 1 /\ req[r].local.pageSize = 10 )
    => LET search == req[r].local.search
           blank == search = UNDEFINED \/ Trim(search) = <<>>
       IN  \A i \in 1..Len(store) :
             (\E j \in 1..Len(req[r].data) : req[r].data[j] = store[i])
             <=> /\ store[i].sales_rep_id = parseInt(req[r].user.id)
                 /\ ~blank => C17_Found(store[i], Trim(search))

\* C18: a recent request answered 200 returns at most limit records (10 when
\* the parameter is absent), all owned by the principal, newest first, none
\* twice, and no record of the principal that was left out is newer than one
\* that was returned.
C18_RecentIsNewest ==
  \A r \in Reqs :
    (req[r].route = "recent" /\ req[r].status = 200) =>
      LET data == req[r].data
          owned == OwnedRows(req[r])
          limit == req[r].local.limit
      IN  /\ "limit" \notin DOMAIN req[r].input => limit = 10
          /\ Len(data) = IF limit < Len(owned) THEN limit ELSE Len(owned)
          /\ \A i \in 1..Len(data) : \E j \in 1..Len(owned) : owned[j] = data[i]
          /\ NoDuplicates(data)
          /\ NewestFirst(data)
          /\ \A j \in 1..Len(owned) :
               (\A i \in 1..Len(data) : data[i] # owned[j]) =>
                 \A i \in 1..Len(data) : data[i].created_at >= owned[j].created_at

\* limit 1 over two records of the principal created at different instants
C18_Witness ==
  \E r \in Reqs :
    /\ req[r].route = "recent" /\ req[r].status = 200
    /\ req[r].local.limit = 1
    /\ Len(req[r].data) = 1
    /\ \E j \in 1..Len(store) :
         /\ store[j].sales_rep_id = req[r].data[1].sales_rep_id
         /\ store[j].created_at < req[r].data[1].created_at

\* C15: in every listing response total is at least the number of records
\* returned, also when creates of the same sales rep come between the
\* listing's count query and its data query.
C15_TotalCoversRecords ==
  \A r \in Reqs :
    (req[r].route = "list" /\ req[r].status = 200) =>
      req[r].local.total >= Len(req[r].data)

C20_UploadTurn(r) ==
  LET l == req[r].local
      after == req'[r]
      urls == IF after.pc = "upload" THEN after.local.documentUrls
              ELSE after.local.cleanData
      handled == IF after.pc = "upload" THEN l.files \ after.local.files ELSE l.files
  IN  /\ after.pc \in {"upload", "insert"}
      /\ Cardinality(handled) = 1
      /\ \A f \in handled :
           [clientId |-> l.clientId, documentType |-> f] \notin blobs =>
             ( [clientId |-> l.clientId, documentType |-> f] \in blobs'
               <=> (f \in DOMAIN urls /\ urls[f] = l.clientId \o <<"/", f>>) )
      /\ \A f \in DOMAIN l.documentUrls : f \in DOMAIN urls /\ urls[f] = l.documentUrls[f]
      /\ \A f \in (req[r].input.files \ handled) \ DOMAIN l.documentUrls : f \notin DOMAIN urls

\* C20: in POST /with-documents a failed upload of a document never aborts
\* the request: after every turn of the upload loop the request goes on,
\* the row handed to the insert carries a blob URL for exactly the files
\* whose upload succeeded, and the insert (its query not failing) stores
\* that row and answers 201.
C20_PartialUploads ==
  [][\A r \in Reqs :
       /\ (req[r].pc = "upload" /\ req'[r] # req[r]) => C20_UploadTurn(r)
       /\ ( /\ req[r].pc = "insert" /\ req[r].route = "withDocs"
            /\ req[r].input.files # {}
            /\ req'[r] # req[r]
            /\ req'[r].log.dbErrors = req[r].log.dbErrors )
          => /\ req'[r].status = 201
             /\ store' = Append(store, req[r].local.cleanData)]_vars

\* a 201 for a form with two files of which one upload failed
C20_Witness ==
  \E r \in Reqs :
    /\ req[r].route = "withDocs" /\ req[r].status = 201
    /\ req[r].input.files = {"nic_proof", "dob_proof"}
    /\ "nic_proof" \in DOMAIN req[r].local.cleanData
    /\ "dob_proof" \notin DOMAIN req[r].local.cleanData
    /\ \E i \in 1..Len(store) : store[i] = req[r].local.cleanData

\* C21: the client store only grows. Every step of the service keeps every
\* row of the table as it is and in its place, and a step taken by a list,
\* recent or health request leaves the table unchanged.
C21_StoreOnlyGrows ==
  [][/\ Len(store') >= Len(store)
     /\ \A i \in 1..Len(store) : store'[i] = store[i]
     /\ \A r \in Reqs :
          ( /\ req'[r] # req[r]
            /\ \/ req[r].route \in {"list", "recent", "health"}
               \/ req'[r].route \in {"list", "recent", "health"} )
          => store' = store]_vars

\* a listing was answered after the service inserted a second row
C21_Witness ==
  /\ Len(store) >= 2
  /\ \E r, r2 \in Reqs :
       /\ req[r].route = "list" /\ req[r].status = 200 /\ Len(req[r].data) >= 2
       /\ req[r2].status = 201

\* what the middleware decided for a request: whether it handed the request
\* on and as which principal, or the status and message of its refusal
C22_AuthOutcome(q) ==
  IF q.log.next >= 1 THEN [next |-> TRUE, user |-> q.user, status |-> 0, message |-> ""]
  ELSE [next |-> FALSE, user |-> EmptyObj, status |-> q.status, message |-> q.message]

\* C22: validation results are not cached. Two requests with the same
\* Authorization header for which the remote service gave the same answer
\* (or that were both verified locally) get the same decision, whatever was
\* decided for other requests; and a request for whose token the remote
\* service answers 401 is answered 401 without reaching the handler, also
\* when a request with the same token was accepted before. The environment
\* and the clock are the same for all requests here.
C22_NoValidationCache ==
  /\ \A r1, r2 \in Reqs :
       ( /\ req[r1].pc \notin {"idle", "auth", "remote"}
         /\ req[r2].pc \notin {"idle", "auth", "remote"}
         /\ req[r1].authHeader = req[r2].authHeader
         /\ req[r1].answer = req[r2].answer )
       => C22_AuthOutcome(req[r1]) = C22_AuthOutcome(req[r2])
  /\ \A r \in Reqs :
       ( /\ req[r].answer.kind = "error"
         /\ req[r].answer.response # NoResponse
         /\ req[r].answer.response.status = 401 )
       => (req[r].log.next = 0 /\ req[r].pc = "done" /\ req[r].status = 401)

\* the remote service accepted a token for one request and answers 401 for
\* the same token on the next, which is refused
C22_Witness ==
  \E r1, r2 \in Reqs :
    /\ req[r1].token = req[r2].token
    /\ req[r1].answer.kind = "response"
    /\ req[r1].log.next = 1
    /\ req[r2].answer.kind = "error"
    /\ req[r2].answer.response # NoResponse
    /\ req[r2].answer.response.status = 401
    /\ req[r2].status = 401

\* the statuses of a validation, authentication or conflict rejection
C23_Rejections == {400, 401, 403, 409}

\* C23: no side effect precedes a rejection. A request is answered 400, 401,
\* 403 or 409 only by a step that starts neither in the upload loop nor at
\* the INSERT, with no row inserted by it and no blob stored by that step;
\* and a blob is stored only by a with-documents request in its upload loop,
\* which it entered authenticated, with every required field present, after
\* its duplicate query and with a sales rep id that is a number.
C23_NoEffectBeforeRejection ==
  [][\A r \in Reqs :
       /\ ( /\ req'[r] # req[r]
            /\ req'[r].pc = "done"
            /\ req'[r].status \in C23_Rejections )
          => /\ req[r].pc \notin {"upload", "insert"}
             /\ req'[r].log.insert = 0
             /\ blobs' = blobs
             /\ store' = store
       /\ (req'[r] # req[r] /\ blobs' # blobs)
          => /\ req[r].pc = "upload"
             /\ req[r].route = "withDocs"
             /\ req[r].log.next = 1
             /\ \A k \in RequiredFields :
                  /\ k \in DOMAIN req[r].local.clientData
                  /\ req[r].local.clientData[k] \notin {NULL, <<>>}
             /\ req[r].log.queries >= 1
             /\ req[r].local.salesRepId \in Nat
             /\ req[r].user.id # <<>>
             /\ req[r].user.id[1] \in Digits
       /\ (req[r].pc \in {"auth", "remote", "handler", "checkDuplicate"} /\ req'[r] # req[r])
          => blobs' = blobs /\ store' = store]_vars

\* a form with a file was refused as a duplicate, and no blob is stored
C23_Witness ==
  \E r \in Reqs :
    /\ req[r].route = "withDocs"
    /\ req[r].status = 409
    /\ req[r].input.files # {}
    /\ blobs = {}

\* the messages of a 500 that say which operation failed and nothing else
C24_GenericMessages ==
  {"Failed to create client", "Failed to create client with documents",
   "Failed to get clients", "Failed to get recent clients"}

\* C24: when a storage query of a create, list or recent request fails, the
\* request is answered 500 with a generic message that carries nothing of
\* the storage error, the failed query was attempted once, and the request
\* issues no storage query after it.
C24_StorageFailureIsGeneric500 ==
  /\ [](\A r \in Reqs :
         req[r].log.dbErrors >= 1
         => /\ req[r].log.dbErrors = 1
            /\ req[r].pc = "done"
            /\ req[r].status = 500
            /\ req[r].message \in C24_GenericMessages)
  /\ [][\A r \in Reqs :
         req[r].log.dbErrors >= 1
         => (req'[r] = req[r] \/ req'[r] = Idle)]_vars

\* C25: created_at of an inserted record is the reading of the server clock
\* taken while the create request is handled, whatever created_at the body
\* carries: when createClient is entered the record is stamped with the
\* clock of that moment, and the row the INSERT adds is that record.
C25_CreatedAtIsServerClock ==
  [][\A r \in Reqs :
       /\ (req[r].pc # "insert" /\ req'[r].pc = "insert")
          => req'[r].local.cleanData.created_at = now
       /\ (req'[r] # req[r] /\ store' # store)
          => /\ req[r].pc = "insert"
             /\ Len(store') = Len(store) + 1
             /\ store'[Len(store')].created_at = req[r].local.cleanData.created_at
             /\ store'[Len(store')].created_at <= now]_vars

\* a body that carries created_at 1 was stored with the later clock reading
C25_Witness ==
  \E r \in Reqs :
    /\ req[r].route = "create"
    /\ req[r].status = 201
    /\ "created_at" \in DOMAIN req[r].input
    /\ req[r].input.created_at = 1
    /\ req[r].data[1].created_at = 2
    /\ store[Len(store)].created_at = 2

\* C26: in the response of a listing with page >= 1 and pageSize >= 1,
\* totalPages is the least number of pages of pageSize records that hold
\* total records, hasPrevPage says page > 1, and hasNextPage says
\* page < totalPages, which is to say page * pageSize < total.
C26_PaginationMetadata ==
  \A r \in Reqs :
    ( /\ req[r].route = "list" /\ req[r].status = 200
      /\ req[r].local.page >= 1 /\ req[r].local.pageSize >= 1 )
    => LET l == req[r].local
       IN  /\ l.totalPages * l.pageSize >= l.total
           /\ \A n \in 0..l.total : n * l.pageSize >= l.total => n >= l.totalPages
           /\ l.hasPrevPage <=> l.page > 1
           /\ l.hasNextPage <=> l.page < l.totalPages
           /\ l.hasNextPage <=> l.page * l.pageSize < l.total

\* page 1 of two records listed one a page: two pages and a next page; and a
\* page of two records holding the only record: one page
C26_Witness ==
  \E r \in Reqs :
    /\ req[r].route = "list" /\ req[r].status = 200
    /\ \/ /\ req[r].local.page = 1 /\ req[r].local.pageSize = 1
          /\ req[r].local.total = 2 /\ req[r].local.totalPages = 2
          /\ req[r].local.hasNextPage /\ ~req[r].local.hasPrevPage
       \/ /\ req[r].local.page = 1 /\ req[r].local.pageSize = 2
          /\ req[r].local.total = 1 /\ req[r].local.totalPages = 1
          /\ ~req[r].local.hasNextPage

\* the middleware has not yet decided the request
C27_InMiddleware(q) == q.pc \in {"auth", "remote"}

\* C27: the middleware ends every request that enters it in exactly one of
\* two ways. While it runs it has neither called next() nor sent a
\* response; once it is through it has either called next() once, with
\* req.user set and no response sent by it, or sent one response (401, 403,
\* 500 or the status the remote service answered) without calling next();
\* and every request that enters it gets there.
C27_ExactlyOneOutcome ==
  /\ [](\A r \in Reqs :
         /\ req[r].log.next <= 1 /\ req[r].log.sent <= 1
         /\ C27_InMiddleware(req[r]) => (req[r].log.next = 0 /\ req[r].log.sent = 0)
         /\ (req[r].pc # "idle" /\ ~C27_InMiddleware(req[r]))
            => \/ /\ req[r].log.next = 1
                  /\ req[r].user # EmptyObj
                  /\ "id" \in DOMAIN req[r].user
                  /\ req[r].pc # "done" => req[r].log.sent = 0
               \/ /\ req[r].log.next = 0
                  /\ req[r].log.sent = 1
                  /\ req[r].pc = "done"
                  /\ \/ req[r].status \in {401, 403, 500}
                     \/ /\ req[r].answer.kind = "error"
                        /\ req[r].answer.response # NoResponse
                        /\ req[r].status = req[r].answer.response.status)
  /\ \A r \in Reqs :
       C27_InMiddleware(req[r]) ~> (req[r].pc # "idle" /\ ~C27_InMiddleware(req[r]))

\* the remote call failed in transport and the local verification refused the
\* token: one response, no next()
C27_Witness ==
  \E r \in Reqs :
    /\ req[r].pc = "done"
    /\ req[r].log.remote = 1 /\ req[r].log.local = 1
    /\ req[r].log.next = 0 /\ req[r].log.sent = 1
    /\ req[r].status = 401

\* C28: a 2xx answer of the remote service lets the request proceed only
\* when it contains a user object with role sales or admin and an id. An
\* answer without a user object is answered 403; an answer whose user has no
\* id is answered with an error status and not verified locally; the handler
\* is invoked in neither case.
C28_RemoteUserRequired ==
  \A r \in Reqs :
    req[r].answer.kind = "response"
    => LET d == req[r].answer.data
       IN  /\ "user" \notin DOMAIN d
              => (req[r].status = 403 /\ req[r].log.next = 0)
           /\ ("user" \in DOMAIN d /\ "id" \notin DOMAIN d.user)
              => (req[r].status >= 400 /\ req[r].log.local = 0 /\ req[r].log.next = 0)
           /\ req[r].log.next >= 1
              => /\ "user" \in DOMAIN d
                 /\ "role" \in DOMAIN d.user
                 /\ d.user.role \in {"sales", "admin"}
                 /\ "id" \in DOMAIN d.user

\* C29: every blob a with-documents request stored lies under the id of the
\* client record that request inserted, also when the clientData JSON
\* carries an id: for each document URL of the inserted record there is a
\* blob of that document type under the record's id, and the URL names it.
C29_BlobsUnderRecordId ==
  \A r \in Reqs :
    (req[r].route = "withDocs" /\ req[r].log.insert >= 1)
    => LET row == req[r].local.cleanData
       IN  \A f \in req[r].input.files :
             f \in DOMAIN row
             => /\ [clientId |-> row.id, documentType |-> f] \in blobs
                /\ row[f] = row.id \o <<"/", f>>

\* the id of the principal starts no number
C30_NotANumber(id) == id # <<>> /\ id[1] \notin Digits

\* C30: the sales rep id of a request is the number its principal's id string
\* denotes. A request of a principal whose id parses to no number is
\* answered 500 by create, with-documents, list and recent (when not refused
\* 400 or 409 before) and inserts nothing; and the number used as owner of an
\* inserted record or as filter of a read is written exactly as the id
\* string, so that different id strings never give the same sales_rep_id.
C30_IdDenotesSalesRep ==
  \A r \in Reqs :
    req[r].log.next >= 1
    => /\ (C30_NotANumber(req[r].user.id) /\ req[r].pc = "done"
             /\ req[r].status \notin {400, 409})
          => (req[r].status = 500 /\ req[r].log.insert = 0)
       /\ (req[r].route \in {"list", "recent"} /\ "salesRepId" \in DOMAIN req[r].local)
          => NumToString(req[r].local.salesRepId) = req[r].user.id
       /\ (req[r].route \in {"create", "withDocs"} /\ "cleanData" \in DOMAIN req[r].local)
          => NumToString(req[r].local.cleanData.sales_rep_id) = req[r].user.id

====
